---- MODULE Spec2Model ----
(***************************************************************************)
(* A model of ayam04/github-analysis: the request handler                  *)
(* analyse_github_code (app.py) and the functions it calls (functions.py): *)
(* clean_input, should_process_path, fetch_github_code, analyze_code and   *)
(* generate_questions.                                                     *)
(*                                                                         *)
(* A string is a sequence of characters; a character is a one-character    *)
(* TLA+ string, or a bracketed name for a character that has no printable  *)
(* form ("<NUL>").  The hosting service and the LLM are the environment:   *)
(* every call to them returns one of the outcomes they can produce.        *)
(***************************************************************************)
EXTENDS Integers, Sequences, FiniteSets, TLC

VARIABLES
    request,         \* the validated AnalysisRequest
    repo,            \* the remote repository: the set of Tree indices it holds
    pc,              \* the handler's position
    github_url,      \* app.py:20
    requirement,     \* app.py:21
    contents,        \* functions.py:83  the work queue of fetch_github_code
    code_content,    \* functions.py:84  the accumulator, then code_data
    analysis_result, \* app.py:23
    questions,       \* app.py:24
    response,        \* what the endpoint answers
    enqueued,        \* history: the entries put on the queue, in order
    popped,          \* history: the entries taken off the queue, in order
    skipped,         \* history: the accepted files whose segment was not added
    fault,           \* history: the hosting-service fault that ended the fetch
    steps,           \* history: the external steps attempted, in order
    llm_codes,       \* history: the code blobs handed to the Alignment Analyzer
    llm_outs,        \* history: what the LLM returned, call by call
    arg,             \* the argument of the pure function under test
    ret              \* its result

vars == << request, repo, pc, github_url, requirement, contents,
           code_content, analysis_result, questions, response, enqueued,
           popped, skipped, fault, steps, llm_codes, llm_outs, arg, ret >>

----------------------------------------------------------------------------
(* Bounds of the model *)

\* the largest number of entries (files and folders) of a modelled repository
MaxEntries == 6
\* the longest question list the modelled LLM returns
MaxLLMQuestions == 2
\* the longest input string given to clean_input
MaxLen == 4
\* the largest number of '/'-separated segments of a path given to the filter
MaxSegments == 2

----------------------------------------------------------------------------
(* Characters and strings *)

NUL  == "<NUL>"     \* U+0000
TAB  == "\t"        \* U+0009
NL   == "\n"        \* U+000A
DEL  == "<DEL>"     \* U+007F
NEL  == "<NEL>"     \* U+0085
NBSP == "<NBSP>"    \* U+00A0

\* the code point of the characters the sanitizer is given
Ord(c) ==
    CASE c = NUL  -> 0
      [] c = TAB  -> 9
      [] c = NL   -> 10
      [] c = " "  -> 32
      [] c = "/"  -> 47
      [] c = "a"  -> 97
      [] c = "b"  -> 98
      [] c = "o"  -> 111
      [] c = "r"  -> 114
      [] c = DEL  -> 127
      [] c = NEL  -> 133
      [] c = NBSP -> 160

UpperCase == << "A","B","C","D","E","F","G","H","I","J","K","L","M",
                "N","O","P","Q","R","S","T","U","V","W","X","Y","Z" >>
LowerCase == << "a","b","c","d","e","f","g","h","i","j","k","l","m",
                "n","o","p","q","r","s","t","u","v","w","x","y","z" >>

Range(s) == { s[i] : i \in DOMAIN s }

\* str.lower() of one character
LowerChar(c) ==
    IF \E i \in DOMAIN UpperCase : UpperCase[i] = c
    THEN LowerCase[CHOOSE i \in DOMAIN UpperCase : UpperCase[i] = c]
    ELSE c

\* str.lower()
Lower(s) == [ i \in DOMAIN s |-> LowerChar(s[i]) ]

\* str.endswith(suffix)
EndsWith(s, suffix) ==
    /\ Len(suffix) <= Len(s)
    /\ SubSeq(s, Len(s) - Len(suffix) + 1, Len(s)) = suffix

\* the substring test `sub in s`
Contains(s, sub) ==
    \E i \in 0 .. (Len(s) - Len(sub)) : SubSeq(s, i + 1, i + Len(sub)) = sub

\* str.split(sep) for a one-character separator: the pieces between the
\* separators, empty pieces included (a function of the pair, so that the
\* string is evaluated once per call)
SplitPair[a \in Seq(STRING) \X STRING] ==
    LET s == a[1]
        sep == a[2]
    IN  IF \A i \in DOMAIN s : s[i] # sep
        THEN << s >>
        ELSE LET k == CHOOSE i \in DOMAIN s :
                          s[i] = sep /\ \A j \in 1 .. (i - 1) : s[j] # sep
             IN  << SubSeq(s, 1, k - 1) >> \o SplitPair[<< SubSeq(s, k + 1, Len(s)), sep >>]

Split(s, sep) == SplitPair[<< s, sep >>]

\* sep.join(parts)
RECURSIVE Join(_, _)
Join(parts, sep) ==
    IF Len(parts) = 0 THEN << >>
    ELSE IF Len(parts) = 1 THEN parts[1]
    ELSE parts[1] \o << sep >> \o Join(Tail(parts), sep)

\* the strings over alphabet of length at most n
StringsUpTo(alphabet, n) == UNION { [ 1 .. k -> alphabet ] : k \in 0 .. n }

----------------------------------------------------------------------------
(* functions.py:25-57  the two static lists *)

SUPPORTED_FILE_EXTENSIONS ==
    << <<".","j","s">>,
       <<".","j","s","x">>,
       <<".","t","s">>,
       <<".","t","s","x">>,
       <<".","h","t","m","l">>,
       <<".","h","t","m">>,
       <<".","c","s","s">>,
       <<".","s","c","s","s">>,
       <<".","s","a","s","s">>,
       <<".","j","a","v","a">>,
       <<".","c","s">>,
       <<".","p","y">>,
       <<".","s","q","l">>,
       <<".","c">>,
       <<".","c","p","p">>,
       <<".","h">>,
       <<".","h","p","p">>,
       <<".","v","b">>,
       <<".","a","s","p","x">>,
       <<".","c","s","h","t","m","l">>,
       <<".","v","b","h","t","m","l">> >>

FORBIDDEN_FOLDERS ==
    << <<"n","o","d","e","_","m","o","d","u","l","e","s">>,
       <<".","n","e","x","t">>,
       <<"_","_","p","y","c","a","c","h","e","_","_">>,
       <<"v","e","n","v">>,
       <<"e","n","v">>,
       <<"b","i","n">>,
       <<"o","b","j">>,
       <<"b","u","i","l","d">>,
       <<"d","i","s","t">>,
       <<"t","a","r","g","e","t">>,
       <<"v","e","n","d","o","r">>,
       <<".","v","s">>,
       <<".","v","s","c","o","d","e">>,
       <<"p","a","c","k","a","g","e","s">>,
       <<"b","o","w","e","r","_","c","o","m","p","o","n","e","n","t","s">>,
       <<"j","s","p","m","_","p","a","c","k","a","g","e","s">>,
       <<"t","m","p">>,
       <<"t","e","m","p">>,
       <<"l","o","g","s">>,
       <<".","s","a","s","s","-","c","a","c","h","e">>,
       <<".","t","s","b","u","i","l","d","i","n","f","o">>,
       <<"o","u","t">>,
       <<"D","e","b","u","g">>,
       <<"R","e","l","e","a","s","e">>,
       <<".","i","d","e","a">>,
       <<".","g","r","a","d","l","e">>,
       <<"m","i","g","r","a","t","i","o","n","s">> >>

----------------------------------------------------------------------------
(* functions.py:64-67  clean_input *)

\* the character class [\x00-\x1F\x7F-\x9F]
IsControl(c) == Ord(c) \in (0 .. 31) \cup (127 .. 159)

\* the character class \s of a str pattern, which is also what str.strip()
\* strips: the ASCII whitespace, U+001C-U+001F, U+0085, U+00A0 (and the
\* spaces above U+00FF, which no modelled character is)
IsSpace(c) == Ord(c) \in (9 .. 13) \cup (28 .. 32) \cup {133, 160}

\* re.sub(r'[\x00-\x1F\x7F-\x9F]', '', text)
StripControl(text) == SelectSeq(text, LAMBDA c : ~IsControl(c))

\* re.sub(r'\s+', ' ', text): every maximal run of whitespace becomes " "
RECURSIVE CollapseSpace(_)
CollapseSpace(text) ==
    IF text = << >> THEN << >>
    ELSE IF IsSpace(Head(text))
         THEN IF Len(text) > 1 /\ IsSpace(text[2])
              THEN CollapseSpace(Tail(text))
              ELSE << " " >> \o CollapseSpace(Tail(text))
         ELSE << Head(text) >> \o CollapseSpace(Tail(text))

\* str.strip()
RECURSIVE Strip(_)
Strip(text) ==
    IF text = << >> THEN << >>
    ELSE IF IsSpace(Head(text)) THEN Strip(Tail(text))
    ELSE IF IsSpace(text[Len(text)]) THEN Strip(SubSeq(text, 1, Len(text) - 1))
    ELSE text

clean_input(text) == Strip(CollapseSpace(StripControl(text)))

----------------------------------------------------------------------------
(* functions.py:69-74  should_process_path *)

\* folder.lower() for folder in FORBIDDEN_FOLDERS
FORBIDDEN_LOWER ==
    [ i \in DOMAIN FORBIDDEN_FOLDERS |-> Lower(FORBIDDEN_FOLDERS[i]) ]

\* ext.lower() for ext in SUPPORTED_FILE_EXTENSIONS
SUPPORTED_LOWER ==
    [ i \in DOMAIN SUPPORTED_FILE_EXTENSIONS |-> Lower(SUPPORTED_FILE_EXTENSIONS[i]) ]

\* functions.py:71  any(folder.lower() in path_parts for folder in ...)
HasForbiddenPart(path_parts) ==
    \E parts \in { path_parts } :
        \E i \in DOMAIN FORBIDDEN_LOWER : FORBIDDEN_LOWER[i] \in Range(parts)

\* a filter that compares the extension as written
HasSupportedExtension_CaseSensitive(path) ==
    \E i \in DOMAIN SUPPORTED_FILE_EXTENSIONS :
        EndsWith(path, SUPPORTED_FILE_EXTENSIONS[i])

\* functions.py:74  any(path.lower().endswith(ext.lower()) for ext in ...)
HasSupportedExtension(path) ==
    \E lowered \in { Lower(path) } :
        \E i \in DOMAIN SUPPORTED_LOWER : EndsWith(lowered, SUPPORTED_LOWER[i])

should_process_path(path) ==
    LET path_parts == Split(Lower(path), "/")
    IN  IF HasForbiddenPart(path_parts) THEN FALSE
        ELSE HasSupportedExtension(path)

----------------------------------------------------------------------------
(* The environment: the remote repository *)

n_src  == << "s","r","c" >>
n_lib  == << "l","i","b" >>
n_env  == << "e","n","v" >>
n_Env  == << "E","n","v" >>
n_envs == << "e","n","v","s" >>
n_a_py == << "a",".","p","y" >>
n_B_PY == << "B",".","P","Y" >>
n_r_md == << "r",".","m","d" >>
n_m_c  == << "m",".","c" >>
n_x_js == << "x",".","j","s" >>
n_e_py == << "e",".","p","y" >>
n_f_py == << "f",".","p","y" >>
n_g_ts == << "g",".","t","s" >>

\* The entries a modelled repository is made of: an entry's parent is an
\* earlier entry (0: the root); `text` is what a file's content decodes to.
Tree ==
    << [ parent |-> 0, name |-> n_a_py, type |-> "file", text |-> << "x" >> ],
       [ parent |-> 0, name |-> n_B_PY, type |-> "file", text |-> << >> ],
       [ parent |-> 0, name |-> n_r_md, type |-> "file", text |-> << "x" >> ],
       [ parent |-> 0, name |-> n_src,  type |-> "dir",  text |-> << >> ],
       [ parent |-> 0, name |-> n_env,  type |-> "dir",  text |-> << >> ],
       [ parent |-> 0, name |-> n_envs, type |-> "dir",  text |-> << >> ],
       [ parent |-> 4, name |-> n_m_c,  type |-> "file", text |-> << "y" >> ],
       [ parent |-> 4, name |-> n_lib,  type |-> "dir",  text |-> << >> ],
       [ parent |-> 4, name |-> n_Env,  type |-> "dir",  text |-> << >> ],
       [ parent |-> 5, name |-> n_e_py, type |-> "file", text |-> << "x" >> ],
       [ parent |-> 6, name |-> n_f_py, type |-> "file", text |-> << "z" >> ],
       [ parent |-> 8, name |-> n_x_js, type |-> "file", text |-> << >> ],
       [ parent |-> 9, name |-> n_g_ts, type |-> "file", text |-> << "x" >> ] >>

RECURSIVE PathOf(_)
PathOf(i) ==
    IF Tree[i].parent = 0 THEN Tree[i].name
    ELSE PathOf(Tree[i].parent) \o << "/" >> \o Tree[i].name

ParentPath(i) == IF Tree[i].parent = 0 THEN << >> ELSE PathOf(Tree[i].parent)

\* A repository holds an entry only with its folder, and no empty folder
\* (the hosting service stores none).
IsRepo(r) ==
    /\ \A i \in r : Tree[i].parent # 0 => Tree[i].parent \in r
    /\ \A i \in r : Tree[i].type = "dir" => \E j \in r : Tree[j].parent = i

Repos == { r \in SUBSET DOMAIN Tree : Cardinality(r) <= MaxEntries /\ IsRepo(r) }

\* the ContentFile object the hosting service lists for an entry
ContentFile(i) == [ type |-> Tree[i].type, path |-> PathOf(i) ]

\* what a file's content decodes to
FileText(path) == Tree[CHOOSE i \in DOMAIN Tree : PathOf(i) = path].text

\* repository.get_contents(path): the entries of one folder, in listing order
Listing(r, path) ==
    LET here(i) == i \in r /\ ParentPath(i) = path
        idx == SelectSeq([ i \in DOMAIN Tree |-> i ], here)
    IN  [ k \in DOMAIN idx |-> ContentFile(idx[k]) ]

\* the statuses of a GithubException
FaultStatuses == { 401, 403, 404 }

----------------------------------------------------------------------------
(* Exceptions and responses *)

NoDetail == << >>

HTTPException(status_code, detail) ==
    [ exc |-> "HTTPException", status |-> status_code, detail |-> detail ]

\* any exception that is not an HTTPException; detail holds str(e)
OtherException(message) ==
    [ exc |-> "Exception", status |-> 0, detail |-> << message >> ]

\* a mapping that reports every fault as the generic upstream error
MapGithubException_AllGeneric(status) ==
    HTTPException(500, << "GitHub API error: ", "GithubException" >>)

\* functions.py:106-112  except GithubException as e
MapGithubException(status) ==
    IF status = 401
    THEN HTTPException(401, << "GitHub authentication failed. Please check your access token." >>)
    ELSE IF status = 404
    THEN HTTPException(404, << "GitHub repository not found. Please check the URL." >>)
    ELSE HTTPException(500, << "GitHub API error: ", "GithubException" >>)

\* functions.py:103
NoSupportedFiles ==
    HTTPException(404, << "No supported files found in the repository." >>)

NoBody == [ alignment_score |-> -1, alignment_summary |-> "", questions_list |-> << >> ]

\* app.py:34-37  the handler's two except clauses
HandlerCatch(e) ==
    IF e.exc = "HTTPException"
    THEN [ status |-> e.status, detail |-> e.detail, body |-> NoBody ]
    ELSE [ status |-> 500,
           detail |-> << "An unexpected error occurred: " >> \o e.detail,
           body |-> NoBody ]

----------------------------------------------------------------------------
(* The environment: the LLM *)

\* What chain.run gives analyze_code: the call fails ("error"), or returns
\* text that is not JSON ("text"), or JSON: an object with some of the two
\* keys, or a value that is no object.
AnalyzerOutputs ==
    { [ outcome |-> o, object |-> FALSE, keys |-> {}, score |-> 0, summary |-> "" ] :
          o \in { "error", "text", "json" } }
    \cup
    { [ outcome |-> "json", object |-> TRUE, keys |-> k, score |-> 80, summary |-> "s" ] :
          k \in SUBSET { "alignmentScore", "alignmentSummary" } }

Q1 == [ dict |-> TRUE, question |-> "q1", lookingFor |-> "l1" ]
Q2 == [ dict |-> TRUE, question |-> "q2", lookingFor |-> "l2" ]
\* an array element that is no {str: str} object
NotADict == [ dict |-> FALSE, question |-> "", lookingFor |-> "" ]

\* What chain.run gives generate_questions: as above, the JSON being an
\* array of at most MaxLLMQuestions elements or a value that is no array.
GeneratorOutputs ==
    { [ outcome |-> o, array |-> FALSE, items |-> << >> ] :
          o \in { "error", "text", "json" } }
    \cup
    { [ outcome |-> "json", array |-> TRUE, items |-> q ] :
          q \in StringsUpTo({ Q1, Q2, NotADict }, MaxLLMQuestions) }

NoResult == [ object |-> FALSE, keys |-> {}, score |-> 0, summary |-> "" ]
NoQuestions == [ array |-> FALSE, items |-> << >> ]

\* json.loads(response) succeeds
IsJson(out) == out.outcome = "json"

\* functions.py:131-132  what analyze_code raises, if anything
AnalyzeRaises(out) ==
    IF out.outcome = "error" THEN << OtherException("LLM call failed") >>
    ELSE IF ~IsJson(out) THEN << OtherException("JSONDecodeError") >>
    ELSE << >>

\* functions.py:132  json.loads(response)
AnalyzeValue(out) ==
    [ object |-> out.object, keys |-> out.keys,
      score |-> out.score, summary |-> out.summary ]

\* functions.py:160-161
GenerateRaises(out) ==
    IF out.outcome = "error" THEN << OtherException("LLM call failed") >>
    ELSE IF ~IsJson(out) THEN << OtherException("JSONDecodeError") >>
    ELSE << >>

GenerateValue(out) == [ array |-> out.array, items |-> out.items ]

\* a lookup that falls back on a default, as result.get(key, default) does
Subscript_Default(result, key) == << >>

\* result[key] for a parsed JSON value: what it raises, if anything
Subscript(result, key) ==
    IF ~result.object THEN << OtherException("TypeError") >>
    ELSE IF key \notin result.keys THEN << OtherException("KeyError: " \o key) >>
    ELSE << >>

\* app.py:5-8  the validation of AnalysisResponse.questions_list
ValidQuestions(q) == q.array /\ \A i \in DOMAIN q.items : q.items[i].dict

\* a response that cuts the list at the requested count
AnalysisResponse_Truncated(result, q) ==
    [ alignment_score   |-> result.score,
      alignment_summary |-> result.summary,
      questions_list    |->
          SubSeq(q.items, 1,
                 IF Len(q.items) < request.question_count
                 THEN Len(q.items) ELSE request.question_count) ]

\* app.py:26-30  AnalysisResponse(...)
AnalysisResponse(result, q) ==
    [ alignment_score   |-> result.score,
      alignment_summary |-> result.summary,
      questions_list    |-> q.items ]

----------------------------------------------------------------------------
(* The request *)

MinQuestionCount == 1
MaxQuestionCount == 20

\* "o/\tr " and "or": the second has no '/'
Urls == { << "o", "/", TAB, "r", " " >>, << "o", "r" >> }
Curricula == { << "a", " ", NL, "b" >> }

Requests ==
    [ github_url : Urls, curriculum : Curricula,
      question_count : { MinQuestionCount, MaxQuestionCount } ]

NoRequest ==
    [ github_url |-> << >>, curriculum |-> << >>, question_count |-> MinQuestionCount ]

NoFault == [ where |-> "none", status |-> 0 ]
NoResponse == [ status |-> 0, detail |-> NoDetail, body |-> NoBody ]

\* the service is up and no request has come in
Init ==
    /\ request = NoRequest
    /\ repo = {}
    /\ pc = "idle"
    /\ github_url = << >>
    /\ requirement = << >>
    /\ contents = << >>
    /\ code_content = << >>
    /\ analysis_result = NoResult
    /\ questions = NoQuestions
    /\ response = NoResponse
    /\ enqueued = << >>
    /\ popped = << >>
    /\ skipped = {}
    /\ fault = NoFault
    /\ steps = << >>
    /\ llm_codes = << >>
    /\ llm_outs = << >>
    /\ arg = << >>
    /\ ret = << >>

----------------------------------------------------------------------------
(* app.py:18-37  analyse_github_code, and the functions it calls *)

\* the handler catches exception e and answers
Raise(e) ==
    /\ response' = HandlerCatch(e)
    /\ pc' = "done"

\* app.py:10-18  a request that passed validation arrives; the repository
\* its URL names is one of the modelled repositories
ReceiveRequest ==
    /\ pc = "idle"
    /\ request' \in Requests
    /\ repo' \in Repos
    /\ pc' = "start"
    /\ UNCHANGED << github_url, requirement, contents, code_content,
                    analysis_result, questions, response, enqueued, popped,
                    skipped, fault, steps, llm_codes, llm_outs, arg, ret >>

\* app.py:20-21
HandlerClean ==
    /\ pc = "start"
    /\ github_url' = clean_input(request.github_url)
    /\ requirement' = clean_input(request.curriculum)
    /\ pc' = "fetch"
    /\ UNCHANGED << request, repo, contents, code_content, analysis_result,
                    questions, response, enqueued, popped, skipped, fault,
                    steps, llm_codes, llm_outs, arg, ret >>

\* app.py:22, functions.py:77-79: parts[-2] raises IndexError outside the try
FetchBegin ==
    /\ pc = "fetch"
    /\ steps' = Append(steps, "fetch")
    /\ IF Len(Split(github_url, "/")) < 2
       THEN Raise(OtherException("IndexError"))
       ELSE pc' = "get_repo" /\ UNCHANGED response
    /\ UNCHANGED << request, repo, github_url, requirement, contents,
                    code_content, analysis_result, questions, enqueued,
                    popped, skipped, fault, llm_codes, llm_outs, arg, ret >>

\* a fetch that swallows the fault and returns what it has
GithubFault_Swallowed(where, s) ==
    /\ fault' = [ where |-> where, status |-> s ]
    /\ pc' = "analyze"
    /\ UNCHANGED response

\* a GithubException with status s raised at `where`, inside the try
GithubFault(where, s) ==
    /\ fault' = [ where |-> where, status |-> s ]
    /\ Raise(MapGithubException(s))

\* functions.py:82  g.get_repo
GetRepo ==
    /\ pc = "get_repo"
    /\ \/ pc' = "get_contents" /\ UNCHANGED << fault, response >>
       \/ \E s \in FaultStatuses : GithubFault("get_repo", s)
    /\ UNCHANGED << request, repo, github_url, requirement, contents,
                    code_content, analysis_result, questions, enqueued,
                    popped, skipped, steps, llm_codes, llm_outs, arg, ret >>

\* functions.py:83-84  repository.get_contents(""); an empty repository has
\* no root listing (the service answers 404)
GetRootContents ==
    /\ pc = "get_contents"
    /\ \/ /\ repo # {}
          /\ contents' = Listing(repo, << >>)
          /\ enqueued' = Listing(repo, << >>)
          /\ code_content' = << >>
          /\ pc' = "loop"
          /\ UNCHANGED << fault, response >>
       \/ /\ \E s \in FaultStatuses :
                 /\ repo = {} => s = 404
                 /\ GithubFault("root", s)
          /\ UNCHANGED << contents, enqueued, code_content >>
    /\ UNCHANGED << request, repo, github_url, requirement, analysis_result,
                    questions, popped, skipped, steps, llm_codes, llm_outs, arg, ret >>

\* functions.py:90  any(folder.lower() in file_content.path.lower() ...):
\* a substring test on the whole path
PrunedDir(path) ==
    \E lowered \in { Lower(path) } :
        \E i \in DOMAIN FORBIDDEN_LOWER : Contains(lowered, FORBIDDEN_LOWER[i])

\* contents.pop(): the last entry is taken
Pop_Last(queue) ==
    [ item |-> queue[Len(queue)], rest |-> SubSeq(queue, 1, Len(queue) - 1) ]

\* functions.py:87  contents.pop(0): the entry taken and the queue left
Pop(queue) == [ item |-> Head(queue), rest |-> Tail(queue) ]

\* functions.py:91  contents.extend(...)
Extend(queue, listing) == queue \o listing

\* functions.py:86-92  one iteration of the loop, on a folder
LoopDir ==
    /\ pc = "loop"
    /\ contents # << >>
    /\ LET file_content == Pop(contents).item
           rest == Pop(contents).rest
       IN  /\ file_content.type = "dir"
           /\ popped' = Append(popped, file_content)
           /\ IF ~PrunedDir(file_content.path)
              THEN \/ /\ contents' = Extend(rest, Listing(repo, file_content.path))
                      /\ enqueued' = enqueued \o Listing(repo, file_content.path)
                      /\ UNCHANGED << pc, fault, response >>
                   \/ /\ \E s \in FaultStatuses : GithubFault("dir", s)
                      /\ contents' = rest
                      /\ UNCHANGED enqueued
              ELSE /\ contents' = rest
                   /\ UNCHANGED << pc, fault, response, enqueued >>
    /\ UNCHANGED << request, repo, github_url, requirement, code_content,
                    analysis_result, questions, skipped, steps, llm_codes,
                    llm_outs, arg, ret >>

\* functions.py:97  the segment of one file
Segment(path, file_data) ==
    << "// File: " >> \o path \o << NL >> \o file_data \o << NL, NL >>

\* functions.py:96  what reading and decoding a file's content can do: give
\* the text; fail to decode (not base64, or not UTF-8); or fail to load the
\* content from the hosting service, which the listing did not carry
ContentOutcomes == { "text", "decode_error", "load_fault" }

\* functions.py:86-88, 94-100  one iteration of the loop, on a file
LoopFile ==
    /\ pc = "loop"
    /\ contents # << >>
    /\ LET file_content == Pop(contents).item
           rest == Pop(contents).rest
       IN  /\ file_content.type # "dir"
           /\ popped' = Append(popped, file_content)
           /\ contents' = rest
           /\ IF should_process_path(file_content.path)
              THEN \E o \in ContentOutcomes :
                     IF o = "text"
                     THEN /\ code_content' = code_content \o
                               Segment(file_content.path, FileText(file_content.path))
                          /\ UNCHANGED skipped
                     ELSE /\ skipped' = skipped \cup
                               { [ path |-> file_content.path, why |-> o ] }
                          /\ UNCHANGED code_content
              ELSE UNCHANGED << code_content, skipped >>
    /\ UNCHANGED << request, repo, pc, github_url, requirement,
                    analysis_result, questions, response, enqueued, fault,
                    steps, llm_codes, llm_outs, arg, ret >>

\* a loop exit that returns the text without looking at it
LoopExit_NoEmptyCheck ==
    /\ pc = "loop"
    /\ contents = << >>
    /\ pc' = "analyze"
    /\ UNCHANGED << request, repo, github_url, requirement, contents,
                    code_content, analysis_result, questions, response,
                    enqueued, popped, skipped, fault, steps, llm_codes,
                    llm_outs, arg, ret >>

\* functions.py:86, 102-104  the loop ends; the result, or the empty-result
\* error, which is no GithubException and reaches the handler as raised
LoopExit ==
    /\ pc = "loop"
    /\ contents = << >>
    /\ IF code_content = << >>
       THEN Raise(NoSupportedFiles)
       ELSE pc' = "analyze" /\ UNCHANGED response
    /\ UNCHANGED << request, repo, github_url, requirement, contents,
                    code_content, analysis_result, questions, enqueued,
                    popped, skipped, fault, steps, llm_codes, llm_outs, arg, ret >>

\* app.py:23, functions.py:114-132  analyze_code(code_data, requirement)
AnalyzeCode ==
    /\ pc = "analyze"
    /\ steps' = Append(steps, "analyze")
    /\ llm_codes' = Append(llm_codes, code_content)
    /\ \E out \in AnalyzerOutputs :
          /\ llm_outs' = Append(llm_outs, out)
          /\ IF AnalyzeRaises(out) # << >>
             THEN Raise(AnalyzeRaises(out)[1]) /\ UNCHANGED analysis_result
             ELSE /\ analysis_result' = AnalyzeValue(out)
                  /\ pc' = "generate"
                  /\ UNCHANGED response
    /\ UNCHANGED << request, repo, github_url, requirement, contents,
                    code_content, questions, enqueued, popped, skipped,
                    fault, arg, ret >>

\* app.py:24, functions.py:134-161  analysis_result['alignmentSummary'] is
\* evaluated first; then generate_questions is called
GenerateQuestions ==
    /\ pc = "generate"
    /\ IF Subscript(analysis_result, "alignmentSummary") # << >>
       THEN /\ Raise(Subscript(analysis_result, "alignmentSummary")[1])
            /\ UNCHANGED << questions, steps, llm_outs >>
       ELSE /\ steps' = Append(steps, "generate")
            /\ \E out \in GeneratorOutputs :
                  /\ llm_outs' = Append(llm_outs, out)
                  /\ IF GenerateRaises(out) # << >>
                     THEN Raise(GenerateRaises(out)[1]) /\ UNCHANGED questions
                     ELSE /\ questions' = GenerateValue(out)
                          /\ pc' = "respond"
                          /\ UNCHANGED response
    /\ UNCHANGED << request, repo, github_url, requirement, contents,
                    code_content, analysis_result, enqueued, popped, skipped,
                    fault, llm_codes, arg, ret >>

\* app.py:26-32  the response is built, validated and returned
AssembleResponse ==
    /\ pc = "respond"
    /\ IF Subscript(analysis_result, "alignmentScore") # << >>
       THEN Raise(Subscript(analysis_result, "alignmentScore")[1])
       ELSE IF ~ValidQuestions(questions)
       THEN Raise(OtherException("ValidationError"))
       ELSE /\ response' = [ status |-> 200, detail |-> NoDetail,
                             body |-> AnalysisResponse(analysis_result, questions) ]
            /\ pc' = "done"
    /\ UNCHANGED << request, repo, github_url, requirement, contents,
                    code_content, analysis_result, questions, enqueued,
                    popped, skipped, fault, steps, llm_codes, llm_outs, arg, ret >>

Next ==
    \/ ReceiveRequest
    \/ HandlerClean
    \/ FetchBegin
    \/ GetRepo
    \/ GetRootContents
    \/ LoopDir
    \/ LoopFile
    \/ LoopExit
    \/ AnalyzeCode
    \/ GenerateQuestions
    \/ AssembleResponse

Spec == Init /\ [][Next]_vars

\* the handler runs to its response: each step is a call that returns
FairSpec == Init /\ [][Next]_vars /\ WF_vars(Next)

----------------------------------------------------------------------------
(* clean_input and should_process_path on their own *)

Idle ==
    /\ request = NoRequest
    /\ repo = {}
    /\ github_url = << >>
    /\ requirement = << >>
    /\ contents = << >>
    /\ code_content = << >>
    /\ analysis_result = NoResult
    /\ questions = NoQuestions
    /\ response = NoResponse
    /\ enqueued = << >>
    /\ popped = << >>
    /\ skipped = {}
    /\ fault = NoFault
    /\ steps = << >>
    /\ llm_codes = << >>
    /\ llm_outs = << >>

handlerVars ==
    << request, repo, github_url, requirement, contents, code_content,
       analysis_result, questions, response, enqueued, popped, skipped,
       fault, steps, llm_codes, llm_outs >>

\* a letter, a second letter, the space, and characters that are control
\* characters, whitespace, or both (TAB, NEL)
CleanAlphabet == { "a", "b", " ", TAB, NUL, NEL, NBSP }

InitClean ==
    /\ Idle
    /\ pc = "call"
    /\ arg \in StringsUpTo(CleanAlphabet, MaxLen)
    /\ ret = << >>

\* functions.py:64-67
CallCleanInput ==
    /\ pc = "call"
    /\ ret' = clean_input(arg)
    /\ pc' = "returned"
    /\ UNCHANGED << handlerVars, arg >>

SpecClean == InitClean /\ [][CallCleanInput]_vars

n_py     == << "p","y" >>
n_dot_py == << ".","p","y" >>
n_a_Py   == << "a",".","P","y" >>
n_a_pyc  == << "a",".","p","y","c" >>
n_DEBUG  == << "D","E","B","U","G" >>
n_a_b_c  == << "a",".","b",".","c" >>

\* the segments the filter's paths are made of: folder names on the deny
\* list in several cases, a name that contains one, file names with and
\* without an allow-listed extension, and the empty segment
SegmentPool ==
    { n_src, n_env, n_Env, n_envs, n_DEBUG, n_a_py, n_B_PY, n_a_Py, n_r_md,
      n_m_c, n_a_pyc, n_a_b_c, n_py, n_dot_py, << >> }

FilterPaths ==
    { Join(parts, "/") :
          parts \in UNION { [ 1 .. k -> SegmentPool ] : k \in 1 .. MaxSegments } }

InitFilter ==
    /\ Idle
    /\ pc = "call"
    /\ arg \in FilterPaths
    /\ ret = FALSE

\* functions.py:69-74
CallShouldProcessPath ==
    /\ pc = "call"
    /\ ret' = should_process_path(arg)
    /\ pc' = "returned"
    /\ UNCHANGED << handlerVars, arg >>

SpecFilter == InitFilter /\ [][CallShouldProcessPath]_vars

----------------------------------------------------------------------------
(* What the properties are stated with *)

IsPrefix(s, t) == Len(s) <= Len(t) /\ SubSeq(t, 1, Len(s)) = s

Count(seq, x) == Cardinality({ k \in DOMAIN seq : seq[k] = x })

\* the paths of the `// File: <path>` markers of a text, in order
RECURSIVE MarkerPaths(_)
MarkerPaths(text) ==
    IF text = << >> THEN << >>
    ELSE IF Head(text) = "// File: "
    THEN LET rest == Tail(text)
             k == CHOOSE i \in DOMAIN rest :
                      rest[i] = NL /\ \A j \in 1 .. (i - 1) : rest[j] # NL
         IN  << SubSeq(rest, 1, k - 1) >> \o MarkerPaths(SubSeq(rest, k, Len(rest)))
    ELSE MarkerPaths(Tail(text))

\* the files of a repository that the Path Filter accepts
Qualifying(r) ==
    { i \in r : Tree[i].type = "file" /\ should_process_path(PathOf(i)) }

\* the traversal ran to the end of its loop
FetchCompleted == enqueued # << >> /\ fault = NoFault /\ pc # "loop"

\* the number of '/'-separated segments of a path
Depth(path) == Len(Split(path, "/"))

SkippedPaths == { k.path : k \in skipped }

\* the popped files that got a segment, in the order they were popped
AppendedPaths ==
    LET got(e) == /\ e.type = "file"
                  /\ should_process_path(e.path)
                  /\ e.path \notin SkippedPaths
        sel == SelectSeq(popped, got)
    IN  [ k \in DOMAIN sel |-> sel[k].path ]

----------------------------------------------------------------------------
(* C1: the fetched text has exactly one marker per file that the Path      *)
(* Filter accepts, wherever the file sits in the tree, and no other marker *)
(* (all file contents being readable).                                     *)

C1_OneMarkerPerQualifyingFile ==
    (pc = "analyze" /\ skipped = {}) =>
        /\ \A i \in DOMAIN Tree :
               Count(MarkerPaths(code_content), PathOf(i)) =
                   IF i \in Qualifying(repo) THEN 1 ELSE 0
        /\ Len(MarkerPaths(code_content)) = Cardinality(Qualifying(repo))

(* C2: a traversal that completes with nothing appended fails with the     *)
(* empty-result error (404, 'No supported files found'); the Alignment     *)
(* Analyzer is never given an empty code blob, and no success response     *)
(* comes from an empty text.                                               *)

C2_EmptyResultError ==
    /\ (FetchCompleted /\ code_content = << >>) =>
           /\ pc = "done"
           /\ response.status = 404
           /\ response.detail = << "No supported files found in the repository." >>
           /\ steps = << "fetch" >>
    /\ \A i \in DOMAIN llm_codes : llm_codes[i] # << >>
    /\ pc \in { "analyze", "generate", "respond" } => code_content # << >>
    /\ response.status = 200 => code_content # << >>

\* the traversal visited an accepted file, skipped it, and ended empty
C2_Witness ==
    /\ FetchCompleted
    /\ code_content = << >>
    /\ skipped # {}
    /\ response.status = 404

(* C3: a hosting-service fault raised at the repository lookup, the root   *)
(* listing or a sub-directory listing answers 401 for status 401, 404 for  *)
(* 404 and 500 for every other status, the handler passing it through.     *)

C3_FaultStatusMapping ==
    fault.where \in { "get_repo", "root", "dir" } =>
        /\ pc = "done"
        /\ response.body = NoBody
        /\ fault.status = 401 =>
               /\ response.status = 401
               /\ response.detail =
                      << "GitHub authentication failed. Please check your access token." >>
        /\ fault.status = 404 =>
               /\ response.status = 404
               /\ response.detail =
                      << "GitHub repository not found. Please check the URL." >>
        /\ fault.status \notin { 401, 404 } =>
               /\ response.status = 500
               /\ response.detail[1] = "GitHub API error: "

\* an authentication fault at a sub-directory listing answered 401
C3_Witness ==
    /\ fault = [ where |-> "dir", status |-> 401 ]
    /\ popped # << >>
    /\ response.status = 401

\* what the statement about should_process_path is made of

UpperChar(c) ==
    IF \E i \in DOMAIN LowerCase : LowerCase[i] = c
    THEN UpperCase[CHOOSE i \in DOMAIN LowerCase : LowerCase[i] = c]
    ELSE c

Upper(s) == [ i \in DOMAIN s |-> UpperChar(s[i]) ]

DenyListedSegment(path) ==
    LET segs == Split(path, "/")
    IN  \E i \in DOMAIN segs, f \in DOMAIN FORBIDDEN_FOLDERS :
            Lower(segs[i]) = Lower(FORBIDDEN_FOLDERS[f])

ExtensionOf(path) ==
    LET segs == Split(path, "/")
        last == segs[Len(segs)]
        dots == { i \in DOMAIN last : last[i] = "." }
    IN  IF dots = {} THEN << >>
        ELSE SubSeq(last, CHOOSE i \in dots : \A j \in dots : j <= i, Len(last))

ExtensionAllowed(path) ==
    \E e \in DOMAIN SUPPORTED_FILE_EXTENSIONS :
        Lower(ExtensionOf(path)) = Lower(SUPPORTED_FILE_EXTENSIONS[e])

WithExtension(path, ext) ==
    SubSeq(path, 1, Len(path) - Len(ExtensionOf(path))) \o ext

(* C4: should_process_path(path) is true iff no deny-listed folder name    *)
(* equals (case-insensitively) a '/'-separated segment of path, and the    *)
(* extension of path (case-insensitively) is on the allow-list; a          *)
(* deny-listed segment rejects whatever the extension, and the case of the *)
(* extension does not change the result.  The extension of a path is its   *)
(* last segment from that segment's last '.' on.                           *)

C4_PathFilterIff ==
    pc = "returned" =>
        /\ ret = (~DenyListedSegment(arg) /\ ExtensionAllowed(arg))
        /\ DenyListedSegment(arg) => ret = FALSE
        /\ should_process_path(WithExtension(arg, Upper(ExtensionOf(arg)))) = ret
        /\ should_process_path(WithExtension(arg, Lower(ExtensionOf(arg)))) = ret

\* a path with an allow-listed extension in upper case is accepted
C4_Witness ==
    /\ pc = "returned"
    /\ ret = TRUE
    /\ ExtensionOf(arg) = << ".", "P", "Y" >>
    /\ Len(Split(arg, "/")) > 1

(* C5: a decode failure of an accepted file is not fatal: the file gets no *)
(* segment, the traversal processes every remaining entry and the text has *)
(* the segment of every other accepted file that decodes; and no error of  *)
(* any other kind is swallowed during the fetch.                           *)

C5_OnlyDecodeFailuresSwallowed ==
    /\ \A k \in skipped : k.why = "decode_error"
    /\ \A k \in skipped : Count(MarkerPaths(code_content), k.path) = 0
    /\ FetchCompleted => popped = enqueued
    /\ fault = NoFault => MarkerPaths(code_content) = AppendedPaths

(* C6: the external steps run in the order fetch, analysis, question       *)
(* generation, each at most once; the Analyzer runs only after the fetch   *)
(* returned a text, the Generator only after the Analyzer returned a       *)
(* result, and a failed step ends the request with no later step.          *)

C6_StrictSequence ==
    /\ IsPrefix(steps, << "fetch", "analyze", "generate" >>)
    /\ Len(steps) >= 2 =>
           /\ FetchCompleted
           /\ code_content # << >>
           /\ llm_codes = << code_content >>
    /\ Len(steps) >= 3 =>
           /\ AnalyzeRaises(llm_outs[1]) = << >>
           /\ analysis_result = AnalyzeValue(llm_outs[1])
    /\ response.status # 0 => pc = "done"
    /\ fault # NoFault => (pc = "done" /\ steps = << "fetch" >>)
    /\ (Len(llm_outs) >= 1 /\ AnalyzeRaises(llm_outs[1]) # << >>) =>
           (pc = "done" /\ steps = << "fetch", "analyze" >> /\ response.status = 500)
    /\ (Len(llm_outs) >= 2 /\ GenerateRaises(llm_outs[2]) # << >>) =>
           (pc = "done" /\ response.status = 500)

\* the Analyzer failed and the Generator was never invoked
C6_Witness ==
    /\ pc = "done"
    /\ steps = << "fetch", "analyze" >>
    /\ Len(llm_outs) = 1
    /\ response.status = 500

\* the LLM outputs that do not have the expected shape

MalformedAnalysis(out) ==
    \/ out.outcome = "text"
    \/ /\ out.outcome = "json"
       /\ out.keys # { "alignmentScore", "alignmentSummary" }

MalformedQuestions(out) == out.outcome = "text"

ParseErrorMessages ==
    { "JSONDecodeError", "TypeError", "KeyError: alignmentScore",
      "KeyError: alignmentSummary" }

(* C7: LLM output that does not parse into the expected shape (text that   *)
(* is no JSON, or JSON without the alignmentScore or alignmentSummary key) *)
(* ends the request with status 500 and a detail that carries the error's  *)
(* message; no success response is produced.                               *)

C7_MalformedOutputIs500 ==
    LET badAnalysis == Len(llm_outs) >= 1 /\ MalformedAnalysis(llm_outs[1])
        badQuestions == Len(llm_outs) >= 2 /\ MalformedQuestions(llm_outs[2])
    IN  (badAnalysis \/ badQuestions) =>
            /\ response.status \in { 0, 500 }
            /\ response.body = NoBody
            /\ pc = "done" =>
                   /\ response.status = 500
                   /\ Len(response.detail) = 2
                   /\ response.detail[1] = "An unexpected error occurred: "
                   /\ response.detail[2] \in ParseErrorMessages \cup { "LLM call failed" }
                   /\ ~badQuestions /\ response.detail[2] = "LLM call failed"
                          => Len(llm_outs) = 2
            /\ pc # "done" => llm_outs[1].outcome = "json"

\* JSON without alignmentScore: the Generator still ran, the request failed
C7_Witness ==
    /\ pc = "done"
    /\ Len(llm_outs) = 2
    /\ llm_outs[1].keys = { "alignmentSummary" }
    /\ llm_outs[2].outcome = "json"
    /\ response.status = 500
    /\ response.detail[2] = "KeyError: alignmentScore"

\* the words of the input (what its whitespace runs separate), without
\* their control characters, joined by single spaces
ClaimedClean(text) ==
    LET spaced == [ i \in DOMAIN text |-> IF IsSpace(text[i]) THEN " " ELSE text[i] ]
        pieces == Split(spaced, " ")
        words == [ i \in DOMAIN pieces |-> SelectSeq(pieces[i], LAMBDA c : ~IsControl(c)) ]
    IN  Join(SelectSeq(words, LAMBDA w : w # << >>), " ")

(* C8: clean_input returns a string with no control character and no       *)
(* leading or trailing whitespace, in which every run of whitespace inside *)
(* the input has become exactly one space.                                 *)

C8_CleanInputCollapsesRuns ==
    pc = "returned" =>
        /\ \A i \in DOMAIN ret : ~IsControl(ret[i])
        /\ ret # << >> => (~IsSpace(ret[1]) /\ ~IsSpace(ret[Len(ret)]))
        /\ ret = ClaimedClean(arg)

(* C9: on success the response's questions_list is the sequence parsed     *)
(* from the model's output, in order, whatever its length against the      *)
(* requested question_count.                                               *)

C9_QuestionsPassedThrough ==
    response.status = 200 =>
        /\ Len(llm_outs) = 2
        /\ response.body.questions_list = llm_outs[2].items

\* more questions than asked for are returned as they are
C9_Witness ==
    /\ response.status = 200
    /\ Len(response.body.questions_list) > request.question_count
    /\ response.body.questions_list[1] # response.body.questions_list[2]

\* the queue discipline of the traversal, state by state

C10_Fifo ==
    /\ IsPrefix(popped, enqueued)
    /\ \A i, j \in DOMAIN enqueued : enqueued[i] = enqueued[j] => i = j
    /\ pc = "loop" => enqueued = popped \o contents
    /\ FetchCompleted => (contents = << >> /\ popped = enqueued)
    /\ \A i, j \in DOMAIN popped :
           i < j => Depth(popped[i].path) <= Depth(popped[j].path)
    /\ fault = NoFault => MarkerPaths(code_content) = AppendedPaths

(* C10: the traversal terminates; it pops every entry it enqueued exactly  *)
(* once, in the order enqueued (first in, first out, from the root listing *)
(* on), ends with an empty queue, and the segments of the text are in      *)
(* that order.                                                             *)

C10_TraversalTerminatesFifo ==
    /\ [] C10_Fifo
    /\ (pc = "loop") ~> (pc # "loop")

\* a traversal three levels deep that returned a text of several segments
C10_Witness ==
    /\ pc = "analyze"
    /\ contents = << >>
    /\ \E i \in DOMAIN popped : Depth(popped[i].path) = 3
    /\ Len(MarkerPaths(code_content)) >= 2
    /\ Len(popped) >= 5

----------------------------------------------------------------------------
(* What the code does where C1, C5 and C8 fail (not claims of the spec) *)

\* the files the traversal reaches: those no folder above which is pruned
Reached(r) ==
    { i \in Qualifying(r) :
          \A k \in 1 .. (Depth(PathOf(i)) - 1) :
              ~PrunedDir(Join(SubSeq(Split(PathOf(i), "/"), 1, k), "/")) }

Actual_MarkersOfReachedFiles ==
    (pc = "analyze" /\ skipped = {}) =>
        \A i \in DOMAIN Tree :
            Count(MarkerPaths(code_content), PathOf(i)) =
                IF i \in Reached(repo) THEN 1 ELSE 0

Actual_SkippedFilesNotFatal ==
    /\ \A k \in skipped : Count(MarkerPaths(code_content), k.path) = 0
    /\ FetchCompleted => popped = enqueued
    /\ fault = NoFault => MarkerPaths(code_content) = AppendedPaths

Actual_CleanInput ==
    pc = "returned" =>
        /\ \A i \in DOMAIN ret : ~IsControl(ret[i])
        /\ ret # << >> => (~IsSpace(ret[1]) /\ ~IsSpace(ret[Len(ret)]))
        /\ \A i \in DOMAIN ret : IsSpace(ret[i]) => ret[i] = " "
        /\ \A i \in 1 .. (Len(ret) - 1) : ~(IsSpace(ret[i]) /\ IsSpace(ret[i + 1]))

====
